---- MODULE Spec2Model ----
(***************************************************************************)
(* Model of the interview server's per-connection turn-taking orchestrator  *)
(* (the wss.on("connection") closure of the server's index.ts): one human   *)
(* client socket, two realtime provider sockets (ai_a = Interviewer, ai_b = *)
(* Candidate), the turn counters and per-turn flags, the coverage tracker,  *)
(* the interruption router and the end-of-session policy.                   *)
(*                                                                         *)
(* A text is a sequence of characters; a non-ASCII character is written as  *)
(* its code point ("U52E4" is the character U+52E4).                        *)
(***************************************************************************)
EXTENDS Integers, Sequences, FiniteSets, TLC

\* ------------------------------------------------------------------------
\* Program constants
\* ------------------------------------------------------------------------

MIN_TURNS == 20

MAX_TURNS == 40

AiKey == {"ai_a", "ai_b"}

AI_PROFILES ==
  [ai_a |-> [name |-> "Interviewer", voice |-> "cedar"],
   ai_b |-> [name |-> "Candidate", voice |-> "marin"]]

CoverageKey == <<"experience", "motivation", "language", "shift", "stamina", "visa">>

\* Label of each topic, in the object's key order: 経験・業務, 動機・理由, 日本語力,
\* シフト・夜勤, 体力・健康, 在留/開始時期.
coverageLabels ==
  [experience |-> <<"U7D4C", "U9A13", "U30FB", "U696D", "U52D9">>,
   motivation |-> <<"U52D5", "U6A5F", "U30FB", "U7406", "U7531">>,
   language |-> <<"U65E5", "U672C", "U8A9E", "U529B">>,
   shift |-> <<"U30B7", "U30D5", "U30C8", "U30FB", "U591C", "U52E4">>,
   stamina |-> <<"U4F53", "U529B", "U30FB", "U5065", "U5EB7">>,
   visa |-> <<"U5728", "U7559", "/", "U958B", "U59CB", "U6642", "U671F">>]

\* /経験|前職|介護|業務|仕事|働い|勤務/  (line 261)
experienceKeywords ==
  { <<"U7D4C", "U9A13">>,  \* 経験
    <<"U524D", "U8077">>,  \* 前職
    <<"U4ECB", "U8B77">>,  \* 介護
    <<"U696D", "U52D9">>,  \* 業務
    <<"U4ED5", "U4E8B">>,  \* 仕事
    <<"U50CD", "U3044">>,  \* 働い
    <<"U52E4", "U52D9">> }  \* 勤務

\* /志望|理由|動機|なぜ|きっかけ|やりたい|興味/  (line 264)
motivationKeywords ==
  { <<"U5FD7", "U671B">>,  \* 志望
    <<"U7406", "U7531">>,  \* 理由
    <<"U52D5", "U6A5F">>,  \* 動機
    <<"U306A", "U305C">>,  \* なぜ
    <<"U304D", "U3063", "U304B", "U3051">>,  \* きっかけ
    <<"U3084", "U308A", "U305F", "U3044">>,  \* やりたい
    <<"U8208", "U5473">> }  \* 興味

\* /日本語|会話|コミュニケーション|聞き取り|読み|書き/  (line 267)
languageKeywords ==
  { <<"U65E5", "U672C", "U8A9E">>,  \* 日本語
    <<"U4F1A", "U8A71">>,  \* 会話
    <<"U30B3", "U30DF", "U30E5", "U30CB", "U30B1", "U30FC", "U30B7", "U30E7", "U30F3">>,  \* コミュニケーション
    <<"U805E", "U304D", "U53D6", "U308A">>,  \* 聞き取り
    <<"U8AAD", "U307F">>,  \* 読み
    <<"U66F8", "U304D">> }  \* 書き

\* /シフト|夜勤|早番|遅番|勤務時間|週|時間帯|休み/  (line 270)
shiftKeywords ==
  { <<"U30B7", "U30D5", "U30C8">>,  \* シフト
    <<"U591C", "U52E4">>,  \* 夜勤
    <<"U65E9", "U756A">>,  \* 早番
    <<"U9045", "U756A">>,  \* 遅番
    <<"U52E4", "U52D9", "U6642", "U9593">>,  \* 勤務時間
    <<"U9031">>,  \* 週
    <<"U6642", "U9593", "U5E2F">>,  \* 時間帯
    <<"U4F11", "U307F">> }  \* 休み

\* /体力|健康|腰|持病|疲れ|力/  (line 273)
staminaKeywords ==
  { <<"U4F53", "U529B">>,  \* 体力
    <<"U5065", "U5EB7">>,  \* 健康
    <<"U8170">>,  \* 腰
    <<"U6301", "U75C5">>,  \* 持病
    <<"U75B2", "U308C">>,  \* 疲れ
    <<"U529B">> }  \* 力

\* /ビザ|在留|滞在|資格|就労|期間|入社|開始日|いつから/  (line 276)
visaKeywords ==
  { <<"U30D3", "U30B6">>,  \* ビザ
    <<"U5728", "U7559">>,  \* 在留
    <<"U6EDE", "U5728">>,  \* 滞在
    <<"U8CC7", "U683C">>,  \* 資格
    <<"U5C31", "U52B4">>,  \* 就労
    <<"U671F", "U9593">>,  \* 期間
    <<"U5165", "U793E">>,  \* 入社
    <<"U958B", "U59CB", "U65E5">>,  \* 開始日
    <<"U3044", "U3064", "U304B", "U3089">> }  \* いつから

\* candidateHints (lines 291-306)
candidateHints ==
  { <<"U672C", "U4EBA">>,  \* 本人
    <<"U5019", "U88DC", "U8005">>,  \* 候補者
    <<"U6C42", "U8077", "U8005">>,  \* 求職者
    <<"U30DE", "U30EA", "U30A2">>,  \* マリア
    <<"U5F7C", "U5973">>,  \* 彼女
    <<"U5F7C">>,  \* 彼
    <<"U65E5", "U672C", "U8A9E">>,  \* 日本語
    <<"U7D4C", "U9A13">>,  \* 経験
    <<"U4ECB", "U8B77">>,  \* 介護
    <<"U8CC7", "U683C">>,  \* 資格
    <<"U524D", "U8077">>,  \* 前職
    <<"U50CD", "U3044">>,  \* 働い
    <<"U3067", "U304D", "U307E", "U3059">>,  \* できます
    <<"U3067", "U304D", "U308B">> }  \* できる

\* interviewerHints (lines 307-322)
interviewerHints ==
  { <<"U5FA1", "U793E">>,  \* 御社
    <<"U65BD", "U8A2D">>,  \* 施設
    <<"U63A1", "U7528">>,  \* 採用
    <<"U6761", "U4EF6">>,  \* 条件
    <<"U52E4", "U52D9">>,  \* 勤務
    <<"U30B7", "U30D5", "U30C8">>,  \* シフト
    <<"U591C", "U52E4">>,  \* 夜勤
    <<"U9762", "U63A5", "U5B98">>,  \* 面接官
    <<"U4F1A", "U793E">>,  \* 会社
    <<"U8077", "U5834">>,  \* 職場
    <<"U5F85", "U9047">>,  \* 待遇
    <<"U7D66", "U4E0E">>,  \* 給与
    <<"U5165", "U793E">>,  \* 入社
    <<"U96C7", "U7528">> }  \* 雇用

\* endMarkers (line 234)
endMarkers ==
  { <<"U3010", "U9762", "U63A5", "U7D42", "U4E86", "U3011">>,  \* 【面接終了】
    <<"U3010", "U9762", "U63A5", "U4E2D", "U6B62", "U3011">> }  \* 【面接中止】


\* ------------------------------------------------------------------------
\* Bounds of the model and the texts the environment draws from
\* ------------------------------------------------------------------------

\* Largest turnId a role is given in a run with interventions at any time.
MaxTurnId == 2

\* Largest turnId a role is given in a run of whole sessions.
MaxSessionTurnId == 22

\* Longest transcript buffer built from transcript deltas within one turn.
MaxBufferLen == 2

\* ""
EmptyText == <<>>

\* "はい"
PlainText == <<"U306F", "U3044">>

\* "以上です【面接終了】"
MarkerText == <<"U4EE5", "U4E0A", "U3067", "U3059", "U3010", "U9762", "U63A5", "U7D42", "U4E86", "U3011">>

\* "勤務時間"
ShiftHoursText == <<"U52E4", "U52D9", "U6642", "U9593">>

\* "経験 志望 日本語 夜勤 体力 ビザ"
AllTopicsText == <<"U7D4C", "U9A13", " ", "U5FD7", "U671B", " ", "U65E5", "U672C", "U8A9E", " ", "U591C", "U52E4", " ", "U4F53", "U529B", " ", "U30D3", "U30B6">>

\* The finalized transcripts a provider delivers in a run of whole sessions.
TranscriptTexts == {EmptyText, PlainText, MarkerText, ShiftHoursText, AllTopicsText}

\* The finalized transcripts a provider delivers in a run with interventions.
ShortTranscriptTexts == {PlainText, MarkerText}

\* The transcript deltas a provider may deliver.
DeltaTexts == {EmptyText, PlainText}

\* ------------------------------------------------------------------------
\* Text functions
\* ------------------------------------------------------------------------

\* The characters the regular expression class \s and String.trim() remove.
WhiteSpace == {" ", "\t", "\n", "\r", "U3000"}

\* text.replace(/\s+/g, "")
RECURSIVE StripWhiteSpace(_)
StripWhiteSpace(text) ==
  IF text = <<>> THEN <<>>
  ELSE IF Head(text) \in WhiteSpace THEN StripWhiteSpace(Tail(text))
  ELSE <<Head(text)>> \o StripWhiteSpace(Tail(text))

\* text.trim()
RECURSIVE TrimLeft(_)
TrimLeft(text) ==
  IF text = <<>> THEN <<>>
  ELSE IF Head(text) \in WhiteSpace THEN TrimLeft(Tail(text))
  ELSE text

RECURSIVE TrimRight(_)
TrimRight(text) ==
  IF text = <<>> THEN <<>>
  ELSE IF text[Len(text)] \in WhiteSpace THEN TrimRight(SubSeq(text, 1, Len(text) - 1))
  ELSE text

Trim(text) == TrimRight(TrimLeft(text))

\* text.includes(word)
Includes(text, word) ==
  \E i \in 0..(Len(text) - Len(word)) : SubSeq(text, i + 1, i + Len(word)) = word

\* /w1|w2|.../.test(text), and words.some((w) => text.includes(w))
TestAny(words, text) == \E word \in words : Includes(text, word)

\* ------------------------------------------------------------------------
\* CoverageTracker
\* ------------------------------------------------------------------------

NoCoverage ==
  [experience |-> FALSE, motivation |-> FALSE, language |-> FALSE,
   shift |-> FALSE, stamina |-> FALSE, visa |-> FALSE]

\* updateCoverage as an else-if chain: only the first matching topic is set
updateCoverage_firstMatchOnly(cov, text) ==
  LET normalized == StripWhiteSpace(text) IN
  IF normalized = <<>> THEN cov
  ELSE IF ~cov.experience /\ TestAny(experienceKeywords, normalized)
  THEN [cov EXCEPT !.experience = TRUE]
  ELSE IF ~cov.motivation /\ TestAny(motivationKeywords, normalized)
  THEN [cov EXCEPT !.motivation = TRUE]
  ELSE IF ~cov.language /\ TestAny(languageKeywords, normalized)
  THEN [cov EXCEPT !.language = TRUE]
  ELSE IF ~cov.shift /\ TestAny(shiftKeywords, normalized)
  THEN [cov EXCEPT !.shift = TRUE]
  ELSE IF ~cov.stamina /\ TestAny(staminaKeywords, normalized)
  THEN [cov EXCEPT !.stamina = TRUE]
  ELSE IF ~cov.visa /\ TestAny(visaKeywords, normalized)
  THEN [cov EXCEPT !.visa = TRUE]
  ELSE cov

\* updateCoverage that recomputes every flag from the last text alone
updateCoverage_overwrites(cov, text) ==
  LET normalized == StripWhiteSpace(text) IN
  IF normalized = <<>> THEN cov
  ELSE [experience |-> TestAny(experienceKeywords, normalized),
        motivation |-> TestAny(motivationKeywords, normalized),
        language |-> TestAny(languageKeywords, normalized),
        shift |-> TestAny(shiftKeywords, normalized),
        stamina |-> TestAny(staminaKeywords, normalized),
        visa |-> TestAny(visaKeywords, normalized)]

\* updateCoverage(text): the coverage after the call, given the coverage before.
updateCoverage(cov, text) ==
  LET normalized == StripWhiteSpace(text) IN
  IF normalized = <<>> THEN cov
  ELSE [experience |-> cov.experience \/ TestAny(experienceKeywords, normalized),
        motivation |-> cov.motivation \/ TestAny(motivationKeywords, normalized),
        language |-> cov.language \/ TestAny(languageKeywords, normalized),
        shift |-> cov.shift \/ TestAny(shiftKeywords, normalized),
        stamina |-> cov.stamina \/ TestAny(staminaKeywords, normalized),
        visa |-> cov.visa \/ TestAny(visaKeywords, normalized)]

hasAllCoverage(cov) == \A i \in 1..Len(CoverageKey) : cov[CoverageKey[i]]

\* listMissingCoverage that keeps the covered topics instead of the missing ones
listMissingCoverage_listsCovered(cov) ==
  LET coveredKeys == SelectSeq(CoverageKey, LAMBDA k : cov[k])
  IN [i \in 1..Len(coveredKeys) |-> coverageLabels[coveredKeys[i]]]

\* listMissingCoverage(): the labels of the topics still false, in key order
\* (the code joins them with ", "; the model keeps the list).
listMissingCoverage(cov) ==
  LET missingKeys == SelectSeq(CoverageKey, LAMBDA k : ~cov[k])
  IN [i \in 1..Len(missingKeys) |-> coverageLabels[missingKeys[i]]]

\* ------------------------------------------------------------------------
\* InterruptionRouter
\* ------------------------------------------------------------------------

\* pickNextSpeaker(utterance): "ai_a", "ai_b", "both" or "null".
pickNextSpeaker(utterance) ==
  LET text == StripWhiteSpace(utterance)
      toCandidate == TestAny(candidateHints, text)
      toInterviewer == TestAny(interviewerHints, text)
  IN IF text = <<>> THEN "null"
     ELSE IF toCandidate /\ toInterviewer THEN "both"
     ELSE IF toCandidate THEN "ai_b"
     ELSE IF toInterviewer THEN "ai_a"
     ELSE "null"

\* ------------------------------------------------------------------------
\* State of one client connection
\* ------------------------------------------------------------------------

VARIABLES
  sessionReady,           \* [AiKey -> BOOLEAN]
  pendingStart,
  autoMode,
  userSpeaking,
  queuedNextKeys,         \* sequence of AiKey
  totalTurns,
  sessionEnded,
  sessionEndReason,       \* "marker", "max_turns" or "null"
  transcriptBuffers,      \* [AiKey -> text]
  audioStarted,
  audioDone,
  transcriptDone,
  transcriptSent,
  playbackDone,
  currentTurn,            \* [AiKey -> Nat]
  transcriptDeltaQueue,   \* [AiKey -> sequence of texts]
  transcriptFinalText,    \* [AiKey -> text or NullText]
  lastUserTranscript,
  lastUserTranscriptAge,  \* Date.now() - lastUserTranscriptAt, in ms, saturated
  coverage,
  aiSockets,              \* [AiKey -> readyState of the provider socket]
  clientSocket,           \* readyState of the client socket
  timers,                 \* pending setTimeout callbacks of requestAiResponse
  responses,              \* [AiKey -> responses the provider is still generating]
  playbackTimers,         \* the client's pending audio_playback_done messages
  clientOut,              \* messages sent to the client by the last step
  aiOut,                  \* [AiKey -> messages sent to that provider by the last step]
  irregular,              \* number of irregular events so far
  horizon,                \* largest turnId this run explores
  advanced,               \* [AiKey -> BOOLEAN]: the role's current turn has requested
                          \* the next speaker
  event                   \* the event the last step handled

vars ==
  <<sessionReady, pendingStart, autoMode, userSpeaking, queuedNextKeys, totalTurns,
    sessionEnded, sessionEndReason, transcriptBuffers, audioStarted, audioDone,
    transcriptDone, transcriptSent, playbackDone, currentTurn, transcriptDeltaQueue,
    transcriptFinalText, lastUserTranscript, lastUserTranscriptAge, coverage,
    aiSockets, clientSocket, timers, responses, playbackTimers, clientOut, aiOut,
    irregular, horizon, advanced, event>>

\* null
NullText == <<"null">>

\* JavaScript truthiness of a string | null
Truthy(text) == text # NullText /\ text # <<>>

\* audio_playback_done without a turnId
NoTurnId == -1

Other(key) == IF key = "ai_a" THEN "ai_b" ELSE "ai_a"

NoOutput == [k \in AiKey |-> <<>>]

\* The state a handler starts from: the program's variables, nothing sent yet.
Cur ==
  [sessionReady |-> sessionReady, pendingStart |-> pendingStart, autoMode |-> autoMode,
   userSpeaking |-> userSpeaking, queuedNextKeys |-> queuedNextKeys,
   totalTurns |-> totalTurns, sessionEnded |-> sessionEnded,
   sessionEndReason |-> sessionEndReason, transcriptBuffers |-> transcriptBuffers,
   audioStarted |-> audioStarted, audioDone |-> audioDone,
   transcriptDone |-> transcriptDone, transcriptSent |-> transcriptSent,
   playbackDone |-> playbackDone, currentTurn |-> currentTurn,
   transcriptDeltaQueue |-> transcriptDeltaQueue,
   transcriptFinalText |-> transcriptFinalText,
   lastUserTranscript |-> lastUserTranscript,
   lastUserTranscriptAge |-> lastUserTranscriptAge, coverage |-> coverage,
   aiSockets |-> aiSockets, clientSocket |-> clientSocket, timers |-> timers,
   responses |-> responses, playbackTimers |-> playbackTimers, clientOut |-> <<>>,
   aiOut |-> NoOutput, irregular |-> irregular]

\* The client's audio_done handler: for every audio_done received it schedules
\* one audio_playback_done carrying the message's source and turnId.
scheduledPlaybackDone(messages) ==
  {[target |-> messages[i].source, turnId |-> messages[i].turnId] :
     i \in {j \in 1..Len(messages) : messages[j].type = "audio_done"}}

\* The step ends in state s.
Becomes(s) ==
  /\ \A k \in AiKey : s.currentTurn[k] <= horizon
  /\ horizon' = horizon
  /\ sessionReady' = s.sessionReady
  /\ pendingStart' = s.pendingStart
  /\ autoMode' = s.autoMode
  /\ userSpeaking' = s.userSpeaking
  /\ queuedNextKeys' = s.queuedNextKeys
  /\ totalTurns' = s.totalTurns
  /\ sessionEnded' = s.sessionEnded
  /\ sessionEndReason' = s.sessionEndReason
  /\ transcriptBuffers' = s.transcriptBuffers
  /\ audioStarted' = s.audioStarted
  /\ audioDone' = s.audioDone
  /\ transcriptDone' = s.transcriptDone
  /\ transcriptSent' = s.transcriptSent
  /\ playbackDone' = s.playbackDone
  /\ currentTurn' = s.currentTurn
  /\ transcriptDeltaQueue' = s.transcriptDeltaQueue
  /\ transcriptFinalText' = s.transcriptFinalText
  /\ lastUserTranscript' = s.lastUserTranscript
  /\ lastUserTranscriptAge' = s.lastUserTranscriptAge
  /\ coverage' = s.coverage
  /\ aiSockets' = s.aiSockets
  /\ clientSocket' = s.clientSocket
  /\ timers' = s.timers
  /\ responses' = s.responses
  /\ playbackTimers' = s.playbackTimers \cup scheduledPlaybackDone(s.clientOut)
  /\ clientOut' = s.clientOut
  /\ aiOut' = s.aiOut
  /\ irregular' = s.irregular

\* The state after the connection handler has run.
Connected ==
  /\ sessionReady = [k \in AiKey |-> FALSE]
  /\ pendingStart = FALSE
  /\ autoMode = FALSE
  /\ userSpeaking = FALSE
  /\ queuedNextKeys = <<>>
  /\ totalTurns = 0
  /\ sessionEnded = FALSE
  /\ sessionEndReason = "null"
  /\ transcriptBuffers = [k \in AiKey |-> <<>>]
  /\ audioStarted = [k \in AiKey |-> FALSE]
  /\ audioDone = [k \in AiKey |-> FALSE]
  /\ transcriptDone = [k \in AiKey |-> FALSE]
  /\ transcriptSent = [k \in AiKey |-> FALSE]
  /\ playbackDone = [k \in AiKey |-> FALSE]
  /\ currentTurn = [k \in AiKey |-> 0]
  /\ transcriptDeltaQueue = [k \in AiKey |-> <<>>]
  /\ transcriptFinalText = [k \in AiKey |-> NullText]
  /\ lastUserTranscript = <<>>
  /\ lastUserTranscriptAge = 5000
  /\ coverage = NoCoverage
  /\ aiSockets = [k \in AiKey |-> "CONNECTING"]
  /\ clientSocket = "OPEN"
  /\ timers = {}
  /\ responses = [k \in AiKey |-> <<>>]
  /\ playbackTimers = {}
  /\ clientOut = <<>>
  /\ aiOut = NoOutput
  /\ irregular = 0
  /\ advanced = [k \in AiKey |-> FALSE]
  /\ event = [type |-> "connection"]

Init == Connected /\ horizon = MaxTurnId

InitSession == Connected /\ horizon = MaxSessionTurnId

\* ------------------------------------------------------------------------
\* Helpers of the connection closure (state in, state out)
\* ------------------------------------------------------------------------

sendToClient(s, payload) ==
  IF s.clientSocket = "OPEN" THEN [s EXCEPT !.clientOut = Append(@, payload)] ELSE s

\* socket.send(...) on the provider socket of key (the caller tests readyState)
aiSend(s, key, payload) == [s EXCEPT !.aiOut[key] = Append(@, payload)]

\* endSession without its early return
endSession_reportsAgain(s, reason) ==
  sendToClient(
    [s EXCEPT !.sessionEnded = TRUE, !.sessionEndReason = reason,
              !.autoMode = FALSE, !.queuedNextKeys = <<>>],
    [type |-> "session_ended", reason |-> reason])

endSession(s, reason) ==
  IF s.sessionEnded THEN s
  ELSE sendToClient(
         [s EXCEPT !.sessionEnded = TRUE, !.sessionEndReason = reason,
                   !.autoMode = FALSE, !.queuedNextKeys = <<>>],
         [type |-> "session_ended", reason |-> reason])

requestAiResponse(s, key, delayMs) ==
  IF s.aiSockets[key] # "OPEN" THEN s
  ELSE [s EXCEPT !.currentTurn[key] = @ + 1,
                 !.audioStarted[key] = FALSE,
                 !.audioDone[key] = FALSE,
                 !.transcriptDone[key] = FALSE,
                 !.transcriptSent[key] = FALSE,
                 !.playbackDone[key] = FALSE,
                 !.transcriptDeltaQueue[key] = <<>>,
                 !.transcriptFinalText[key] = NullText,
                 !.transcriptBuffers[key] = <<>>,
                 !.timers = @ \cup {[key |-> key, turnId |-> s.currentTurn[key] + 1,
                                     delayMs |-> delayMs]}]

\* checkTurnCompletion that always alternates and never looks at the queue
checkTurnCompletion_ignoresQueue(s, key) ==
  IF ~s.audioDone[key] \/ ~s.transcriptDone[key] \/ ~s.playbackDone[key] THEN s
  ELSE IF ~s.autoMode \/ s.userSpeaking THEN s
  ELSE IF s.sessionEnded THEN s
  ELSE requestAiResponse(s, Other(key), 450)

\* checkTurnCompletion that does not wait for the playback acknowledgment
checkTurnCompletion_ignoresPlayback(s, key) ==
  IF ~s.audioDone[key] \/ ~s.transcriptDone[key] THEN s
  ELSE IF ~s.autoMode \/ s.userSpeaking THEN s
  ELSE IF s.sessionEnded THEN s
  ELSE LET nextKey == IF s.queuedNextKeys # <<>> THEN Head(s.queuedNextKeys)
                      ELSE Other(key)
           shifted == [s EXCEPT !.queuedNextKeys = IF @ = <<>> THEN @ ELSE Tail(@)]
       IN requestAiResponse(shifted, nextKey, 450)

checkTurnCompletion(s, key) ==
  IF ~s.audioDone[key] \/ ~s.transcriptDone[key] \/ ~s.playbackDone[key] THEN s
  ELSE IF ~s.autoMode \/ s.userSpeaking THEN s
  ELSE IF s.sessionEnded THEN s
  ELSE LET nextKey == IF s.queuedNextKeys # <<>> THEN Head(s.queuedNextKeys)
                      ELSE Other(key)
           shifted == [s EXCEPT !.queuedNextKeys = IF @ = <<>> THEN @ ELSE Tail(@)]
       IN requestAiResponse(shifted, nextKey, 450)

\* The two places that send transcript_done (onAudioDone, onTranscriptDone).
sendTranscriptDone(s, key) ==
  LET sent == sendToClient(s, [type |-> "transcript_done", source |-> key,
                               name |-> AI_PROFILES[key].name,
                               turnId |-> s.currentTurn[key],
                               text |-> s.transcriptFinalText[key]])
  IN [sent EXCEPT !.transcriptFinalText[key] = NullText,
                  !.transcriptDeltaQueue[key] = <<>>,
                  !.transcriptSent[key] = TRUE]

\* ------------------------------------------------------------------------
\* Handlers of a provider connection (createAiSocket)
\* ------------------------------------------------------------------------

\* onReady that reports sessions_ready but leaves the first request to the client
onReady_noRequest(s, key) ==
  LET ready == [s EXCEPT !.sessionReady[key] = TRUE] IN
  IF ready.pendingStart /\ ready.sessionReady["ai_a"] /\ ready.sessionReady["ai_b"]
  THEN sendToClient([ready EXCEPT !.pendingStart = FALSE], [type |-> "sessions_ready"])
  ELSE ready

onReady(s, key) ==
  LET ready == [s EXCEPT !.sessionReady[key] = TRUE] IN
  IF ready.pendingStart /\ ready.sessionReady["ai_a"] /\ ready.sessionReady["ai_b"]
  THEN LET told == sendToClient([ready EXCEPT !.pendingStart = FALSE],
                                [type |-> "sessions_ready"])
       IN IF told.autoMode THEN requestAiResponse(told, "ai_a", 0) ELSE told
  ELSE ready

onAudioDelta(s, key) ==
  LET s1 == sendToClient(s, [type |-> "audio", source |-> key,
                             turnId |-> s.currentTurn[key], data |-> "pcm16"])
      s2 == IF ~s1.audioStarted[key]
            THEN sendToClient([s1 EXCEPT !.audioStarted[key] = TRUE],
                              [type |-> "audio_start", source |-> key,
                               name |-> AI_PROFILES[key].name,
                               turnId |-> s1.currentTurn[key]])
            ELSE s1
  IN IF Len(s2.transcriptDeltaQueue[key]) > 0
     THEN LET delta == Head(s2.transcriptDeltaQueue[key])
              s3 == [s2 EXCEPT !.transcriptDeltaQueue[key] = Tail(@)]
          IN IF delta # <<>>
             THEN sendToClient(s3, [type |-> "transcript_delta", source |-> key,
                                    name |-> AI_PROFILES[key].name,
                                    turnId |-> s3.currentTurn[key], delta |-> delta])
             ELSE s3
     ELSE s2

\* onAudioDone that leaves the final transcript unsent
onAudioDone_noRelay(s, key) ==
  LET s1 == sendToClient(s, [type |-> "audio_done", source |-> key,
                             turnId |-> s.currentTurn[key]])
      s2 == [s1 EXCEPT !.audioDone[key] = TRUE]
  IN checkTurnCompletion(s2, key)

onAudioDone(s, key) ==
  LET s1 == sendToClient(s, [type |-> "audio_done", source |-> key,
                             turnId |-> s.currentTurn[key]])
      s2 == [s1 EXCEPT !.audioDone[key] = TRUE]
      s3 == IF Truthy(s2.transcriptFinalText[key]) /\ ~s2.transcriptSent[key]
            THEN sendTranscriptDone(s2, key)
            ELSE s2
  IN checkTurnCompletion(s3, key)

onTranscriptDelta(s, key, delta) ==
  LET s1 == [s EXCEPT !.transcriptBuffers[key] = @ \o delta] IN
  IF delta # <<>> THEN [s1 EXCEPT !.transcriptDeltaQueue[key] = Append(@, delta)]
  ELSE s1

\* The EndGuard branch: the marker is ignored and the interviewer is told to go on.
endGuard(s, key) ==
  LET missing == listMissingCoverage(s.coverage) IN
  IF key = "ai_a" /\ s.aiSockets["ai_a"] = "OPEN" /\ missing # <<>>
  THEN aiSend(s, "ai_a", [type |-> "conversation.item.create", role |-> "user",
                          text |-> <<"Continue the interview. Missing topics: ",
                                     missing, ". Do NOT close yet.">>])
  ELSE s

\* The evaluation with "totalTurns > MIN_TURNS" for the marker guard
evaluateEnd_strictMin(s, key, finalText) ==
  IF TestAny(endMarkers, finalText)
  THEN IF s.totalTurns > MIN_TURNS /\ hasAllCoverage(s.coverage)
       THEN endSession(s, "marker")
       ELSE endGuard(s, key)
  ELSE IF s.totalTurns >= MAX_TURNS THEN endSession(s, "max_turns")
  ELSE s

\* The evaluation that ends at max turns only when the coverage is complete
evaluateEnd_maxNeedsCoverage(s, key, finalText) ==
  IF TestAny(endMarkers, finalText)
  THEN IF s.totalTurns >= MIN_TURNS /\ hasAllCoverage(s.coverage)
       THEN endSession(s, "marker")
       ELSE endGuard(s, key)
  ELSE IF s.totalTurns >= MAX_TURNS /\ hasAllCoverage(s.coverage)
  THEN endSession(s, "max_turns")
  ELSE s

\* The end-of-session evaluation of onTranscriptDone.
evaluateEnd(s, key, finalText) ==
  IF TestAny(endMarkers, finalText)
  THEN IF s.totalTurns >= MIN_TURNS /\ hasAllCoverage(s.coverage)
       THEN endSession(s, "marker")
       ELSE endGuard(s, key)
  ELSE IF s.totalTurns >= MAX_TURNS THEN endSession(s, "max_turns")
  ELSE s

\* injectContext that labels every text as the interviewer's
injectContext_oneLabel(s, key, finalText) ==
  IF Trim(finalText) # <<>> /\ s.aiSockets[Other(key)] = "OPEN"
  THEN aiSend(s, Other(key),
              [type |-> "conversation.item.create", role |-> "user",
               text |-> <<"[", "Interviewer", " said]: ", finalText>>])
  ELSE s

\* The context injection that ends onTranscriptDone.
injectContext(s, key, finalText) ==
  IF Trim(finalText) # <<>> /\ s.aiSockets[Other(key)] = "OPEN"
  THEN aiSend(s, Other(key),
              [type |-> "conversation.item.create", role |-> "user",
               text |-> <<"[", IF key = "ai_a" THEN "Interviewer" ELSE "Candidate",
                          " said]: ", finalText>>])
  ELSE s

\* onTranscriptDone that applies the coverage detectors to either role's text
onTranscriptDone_coversAnyRole(s, key, transcript) ==
  LET finalText == IF transcript # <<>> THEN transcript ELSE s.transcriptBuffers[key]
      s1 == [s EXCEPT !.transcriptBuffers[key] = <<>>,
                      !.transcriptFinalText[key] = finalText,
                      !.transcriptDone[key] = TRUE,
                      !.totalTurns = @ + 1]
      s2 == [s1 EXCEPT !.coverage = updateCoverage(s1.coverage, finalText)]
      s3 == evaluateEnd(s2, key, finalText)
      s4 == IF s3.audioDone[key] /\ Truthy(s3.transcriptFinalText[key])
               /\ ~s3.transcriptSent[key]
            THEN sendTranscriptDone(s3, key)
            ELSE s3
      s5 == checkTurnCompletion(s4, key)
  IN injectContext(s5, key, finalText)

\* onTranscriptDone that counts the turn only once its audio is done
onTranscriptDone_countsAfterAudio(s, key, transcript) ==
  LET finalText == IF transcript # <<>> THEN transcript ELSE s.transcriptBuffers[key]
      s1 == [s EXCEPT !.transcriptBuffers[key] = <<>>,
                      !.transcriptFinalText[key] = finalText,
                      !.transcriptDone[key] = TRUE,
                      !.totalTurns = IF s.audioDone[key] THEN @ + 1 ELSE @]
      s2 == IF key = "ai_a"
            THEN [s1 EXCEPT !.coverage = updateCoverage(s1.coverage, finalText)]
            ELSE s1
      s3 == evaluateEnd(s2, key, finalText)
      s4 == IF s3.audioDone[key] /\ Truthy(s3.transcriptFinalText[key])
               /\ ~s3.transcriptSent[key]
            THEN sendTranscriptDone(s3, key)
            ELSE s3
      s5 == checkTurnCompletion(s4, key)
  IN injectContext(s5, key, finalText)

onTranscriptDone(s, key, transcript) ==
  LET finalText == IF transcript # <<>> THEN transcript ELSE s.transcriptBuffers[key]
      s1 == [s EXCEPT !.transcriptBuffers[key] = <<>>,
                      !.transcriptFinalText[key] = finalText,
                      !.transcriptDone[key] = TRUE,
                      !.totalTurns = @ + 1]
      s2 == IF key = "ai_a"
            THEN [s1 EXCEPT !.coverage = updateCoverage(s1.coverage, finalText)]
            ELSE s1
      s3 == evaluateEnd(s2, key, finalText)
      s4 == IF s3.audioDone[key] /\ Truthy(s3.transcriptFinalText[key])
               /\ ~s3.transcriptSent[key]
            THEN sendTranscriptDone(s3, key)
            ELSE s3
      s5 == checkTurnCompletion(s4, key)
  IN injectContext(s5, key, finalText)

\* onInputTranscriptDone that takes the transcript from either connection
onInputTranscriptDone_anyRole(s, key, transcript) ==
  LET normalized == Trim(transcript) IN
  IF normalized = <<>> THEN s
  ELSE IF normalized = s.lastUserTranscript /\ s.lastUserTranscriptAge < 2000 THEN s
  ELSE sendToClient([s EXCEPT !.lastUserTranscript = normalized,
                              !.lastUserTranscriptAge = 0],
                    [type |-> "user_transcript", text |-> normalized])

onInputTranscriptDone(s, key, transcript) ==
  LET normalized == Trim(transcript) IN
  IF key # "ai_a" THEN s
  ELSE IF normalized = <<>> THEN s
  ELSE IF normalized = s.lastUserTranscript /\ s.lastUserTranscriptAge < 2000 THEN s
  ELSE sendToClient([s EXCEPT !.lastUserTranscript = normalized,
                              !.lastUserTranscriptAge = 0],
                    [type |-> "user_transcript", text |-> normalized])

\* onError that reports nothing to the client
onError_silent(s, message) == s

\* onError that treats the error as fatal for the automatic turn-taking
onError_stopsAutoMode(s, message) ==
  sendToClient([s EXCEPT !.autoMode = FALSE, !.queuedNextKeys = <<>>],
               [type |-> "error", message |-> message])

onError(s, message) == sendToClient(s, [type |-> "error", message |-> message])

\* ------------------------------------------------------------------------
\* Handlers of the client socket (clientSocket.on("message"))
\* ------------------------------------------------------------------------

\* onStart that keeps the coverage of the session before
onStart_keepsCoverage(s) ==
  LET reset == [s EXCEPT !.autoMode = TRUE, !.sessionEnded = FALSE,
                         !.sessionEndReason = "null", !.totalTurns = 0,
                         !.queuedNextKeys = <<>>]
  IN IF reset.sessionReady["ai_a"] /\ reset.sessionReady["ai_b"]
     THEN requestAiResponse(sendToClient(reset, [type |-> "sessions_ready"]), "ai_a", 0)
     ELSE sendToClient([reset EXCEPT !.pendingStart = TRUE],
                       [type |-> "waiting_for_sessions"])

\* onStart that also resets the turn counters
onStart_resetsTurns(s) ==
  LET reset == [s EXCEPT !.autoMode = TRUE, !.sessionEnded = FALSE,
                         !.sessionEndReason = "null", !.totalTurns = 0,
                         !.queuedNextKeys = <<>>, !.coverage = NoCoverage,
                         !.currentTurn = [k \in AiKey |-> 0]]
  IN IF reset.sessionReady["ai_a"] /\ reset.sessionReady["ai_b"]
     THEN requestAiResponse(sendToClient(reset, [type |-> "sessions_ready"]), "ai_a", 0)
     ELSE sendToClient([reset EXCEPT !.pendingStart = TRUE],
                       [type |-> "waiting_for_sessions"])

onStart(s) ==
  LET reset == [s EXCEPT !.autoMode = TRUE, !.sessionEnded = FALSE,
                         !.sessionEndReason = "null", !.totalTurns = 0,
                         !.queuedNextKeys = <<>>, !.coverage = NoCoverage]
  IN IF reset.sessionReady["ai_a"] /\ reset.sessionReady["ai_b"]
     THEN requestAiResponse(sendToClient(reset, [type |-> "sessions_ready"]), "ai_a", 0)
     ELSE sendToClient([reset EXCEPT !.pendingStart = TRUE],
                       [type |-> "waiting_for_sessions"])

onRequestAi(s, target) == requestAiResponse(s, target, 0)

\* user_audio and user_audio_commit: the same payload to every open provider socket
fanOut(s, payload) ==
  [s EXCEPT !.aiOut = [k \in AiKey |->
                         IF s.aiSockets[k] = "OPEN" THEN Append(s.aiOut[k], payload)
                         ELSE s.aiOut[k]]]

onUserSpeaking(s) == [s EXCEPT !.userSpeaking = TRUE]

\* onUserDone that routes by the last transcript however old it is
onUserDone_ignoresAge(s) ==
  LET s1 == [s EXCEPT !.userSpeaking = FALSE] IN
  IF s1.autoMode /\ ~s1.sessionEnded
  THEN LET decision == IF s1.lastUserTranscript # <<>>
                       THEN pickNextSpeaker(s1.lastUserTranscript)
                       ELSE "null"
           nextKeys == IF decision = "ai_b" THEN <<"ai_b">>
                       ELSE IF decision = "both" THEN <<"ai_a", "ai_b">>
                       ELSE <<"ai_a">>
           s2 == [s1 EXCEPT !.queuedNextKeys = Tail(nextKeys)]
       IN requestAiResponse(s2, Head(nextKeys), 350)
  ELSE s1

\* onUserDone that treats "both" like no decision: nobody is queued
onUserDone_dropsSecond(s) ==
  LET s1 == [s EXCEPT !.userSpeaking = FALSE] IN
  IF s1.autoMode /\ ~s1.sessionEnded
  THEN LET decision == IF s1.lastUserTranscript # <<>> /\ s1.lastUserTranscriptAge < 5000
                       THEN pickNextSpeaker(s1.lastUserTranscript)
                       ELSE "null"
           nextKeys == IF decision = "ai_b" THEN <<"ai_b">> ELSE <<"ai_a">>
           s2 == [s1 EXCEPT !.queuedNextKeys = Tail(nextKeys)]
       IN requestAiResponse(s2, Head(nextKeys), 350)
  ELSE s1

onUserDone(s) ==
  LET s1 == [s EXCEPT !.userSpeaking = FALSE] IN
  IF s1.autoMode /\ ~s1.sessionEnded
  THEN LET decision == IF s1.lastUserTranscript # <<>> /\ s1.lastUserTranscriptAge < 5000
                       THEN pickNextSpeaker(s1.lastUserTranscript)
                       ELSE "null"
           nextKeys == IF decision = "ai_b" THEN <<"ai_b">>
                       ELSE IF decision = "both" THEN <<"ai_a", "ai_b">>
                       ELSE <<"ai_a">>
           s2 == [s1 EXCEPT !.queuedNextKeys = Tail(nextKeys)]
       IN requestAiResponse(s2, Head(nextKeys), 350)
  ELSE s1

\* onPlaybackDone without the turnId test
onPlaybackDone_noTurnCheck(s, target, turnId) ==
  checkTurnCompletion([s EXCEPT !.playbackDone[target] = TRUE], target)

\* onPlaybackDone that discards only the older turnIds
onPlaybackDone_acceptsLarger(s, target, turnId) ==
  IF turnId # NoTurnId /\ turnId < s.currentTurn[target] THEN s
  ELSE checkTurnCompletion([s EXCEPT !.playbackDone[target] = TRUE], target)

onPlaybackDone(s, target, turnId) ==
  IF turnId # NoTurnId /\ turnId # s.currentTurn[target] THEN s
  ELSE checkTurnCompletion([s EXCEPT !.playbackDone[target] = TRUE], target)

onClientClose(s) ==
  [s EXCEPT !.clientSocket = "CLOSED", !.aiSockets = [k \in AiKey |-> "CLOSED"]]

\* "経験は"
ToCandidateText == <<"U7D4C", "U9A13", "U306F">>

\* "給与は"
ToInterviewerText == <<"U7D66", "U4E0E", "U306F">>

\* "御社 経験"
ToBothText == <<"U5FA1", "U793E", " ", "U7D4C", "U9A13">>

\* " "
BlankText == <<" ">>

\* The finalized human transcripts a provider delivers once a session has ended.
UserTexts == {ToCandidateText, ToInterviewerText, ToBothText, PlainText, BlankText}

\* The finalized human transcripts a provider delivers in a run with interventions.
ShortUserTexts == {ToBothText}

\* Number of irregular events explored in one run: a manual request_ai, a human
\* utterance, a restart, a provider fault, a disconnect.
MaxIrregular == 2

\* Number of manual commands explored after a session has ended.
MaxSessionCommands == 1

\* ------------------------------------------------------------------------
\* Events
\* ------------------------------------------------------------------------

\* The s after one more irregular event.
Irregular(s) == [s EXCEPT !.irregular = @ + 1]

\* The role whose turn completion event e makes checkTurnCompletion look at.
Completer(e) ==
  IF e.type \in {"response.audio.done", "response.audio_transcript.done"} THEN e.key
  ELSE IF e.type = "audio_playback_done" THEN e.target
  ELSE "null"

\* The step that ends in state s requested the next speaker (the 450 ms request
\* of checkTurnCompletion).
RequestedNext(s) == \E t \in s.timers \ timers : t.delayMs = 450

\* The step handles event e and ends in state s. A role's turn is noted as
\* having requested the next speaker until the role is asked to speak again.
Happens(e, s) ==
  \E after \in {s} :
    /\ Becomes(after)
    /\ event' = e
    /\ advanced' = [k \in AiKey |->
                      IF after.currentTurn[k] # currentTurn[k] THEN FALSE
                      ELSE advanced[k] \/ (k = Completer(e) /\ RequestedNext(after))]

\* ws.on("open") of a provider socket: the session.update is sent.
SocketOpen(key) ==
  /\ aiSockets[key] = "CONNECTING"
  /\ Happens([type |-> "open", key |-> key],
             aiSend([Cur EXCEPT !.aiSockets[key] = "OPEN"], key,
                    [type |-> "session.update", voice |-> AI_PROFILES[key].voice,
                     turn_detection |-> "null"]))

\* session.updated arrives, once per connection
SessionUpdated(key) ==
  /\ aiSockets[key] = "OPEN"
  /\ ~sessionReady[key]
  /\ Happens([type |-> "session.updated", key |-> key], onReady(Cur, key))

\* The delayed send without its readyState test
onTimeout_sendsAnyway(s, timer) ==
  aiSend([s EXCEPT !.timers = @ \ {timer},
                   !.responses[timer.key] =
                     Append(@, [turnId |-> timer.turnId, audio |-> FALSE,
                                transcript |-> FALSE])],
         timer.key, [type |-> "response.create"])

\* The setTimeout callback of requestAiResponse: response.create is sent and the
\* provider starts a response (the model notes the turnId it was requested for;
\* the program keeps no such link).
onTimeout(s, timer) ==
  LET fired == [s EXCEPT !.timers = @ \ {timer}] IN
  IF s.aiSockets[timer.key] # "OPEN" THEN fired
  ELSE aiSend([fired EXCEPT !.responses[timer.key] =
                              Append(@, [turnId |-> timer.turnId, audio |-> FALSE,
                                         transcript |-> FALSE])],
              timer.key, [type |-> "response.create"])

TimerFires(timer) ==
  /\ timer \in timers
  /\ Happens([type |-> "timeout", key |-> timer.key, turnId |-> timer.turnId],
             onTimeout(Cur, timer))

\* The provider is generating a response on this connection.
Generating(key) == aiSockets[key] = "OPEN" /\ responses[key] # <<>>

\* The provider's responses after the head response delivered audio.done or
\* audio_transcript.done; a response that delivered both is finished.
Delivered(s, key, part) ==
  LET head == [Head(s.responses[key]) EXCEPT ![part] = TRUE] IN
  [s EXCEPT !.responses[key] = IF head.audio /\ head.transcript THEN Tail(@)
                               ELSE <<head>> \o Tail(@)]

AudioDelta(key) ==
  /\ Generating(key)
  /\ ~Head(responses[key]).audio
  /\ Happens([type |-> "response.audio.delta", key |-> key,
              response |-> Head(responses[key]).turnId],
             onAudioDelta(Cur, key))

AudioDone(key) ==
  /\ Generating(key)
  /\ ~Head(responses[key]).audio
  /\ Happens([type |-> "response.audio.done", key |-> key,
              response |-> Head(responses[key]).turnId],
             onAudioDone(Delivered(Cur, key, "audio"), key))

TranscriptDelta(key, delta) ==
  /\ Generating(key)
  /\ ~Head(responses[key]).transcript
  /\ Len(transcriptBuffers[key]) + Len(delta) <= MaxBufferLen
  /\ Happens([type |-> "response.audio_transcript.delta", key |-> key,
              response |-> Head(responses[key]).turnId, delta |-> delta],
             onTranscriptDelta(Cur, key, delta))

TranscriptDone(key, transcript) ==
  /\ Generating(key)
  /\ ~Head(responses[key]).transcript
  /\ Happens([type |-> "response.audio_transcript.done", key |-> key,
              response |-> Head(responses[key]).turnId, transcript |-> transcript],
             onTranscriptDone(Delivered(Cur, key, "transcript"), key, transcript))

\* An input_audio_transcription event with a transcript and no "delta" in its type
InputTranscriptDone(key, transcript) ==
  /\ aiSockets[key] = "OPEN"
  /\ irregular < MaxIrregular
  /\ Happens([type |-> "input_audio_transcription.completed", key |-> key,
              transcript |-> transcript],
             onInputTranscriptDone(Irregular(Cur), key, transcript))

\* An error event, an unparseable message or a socket error of a provider connection
ProviderError(key, message) ==
  /\ aiSockets[key] = "OPEN"
  /\ irregular < MaxIrregular
  /\ Happens([type |-> "error", key |-> key, message |-> message],
             onError(Irregular(Cur), message))

\* Time passes: the last human transcript gets older (under 2 s, under 5 s, older).
Elapse ==
  /\ lastUserTranscriptAge < 5000
  /\ Happens([type |-> "elapse"],
             [Cur EXCEPT !.lastUserTranscriptAge = IF @ < 2000 THEN 2000 ELSE 5000])

\* A start is irregular when a session is running or has ended.
Start ==
  /\ clientSocket = "OPEN"
  /\ (autoMode \/ sessionEnded) => irregular < MaxIrregular
  /\ Happens([type |-> "start"],
             onStart(IF autoMode \/ sessionEnded THEN Irregular(Cur) ELSE Cur))

RequestAi(target) ==
  /\ clientSocket = "OPEN"
  /\ irregular < MaxIrregular
  /\ Happens([type |-> "request_ai", target |-> target],
             onRequestAi(Irregular(Cur), target))

UserSpeaking ==
  /\ clientSocket = "OPEN"
  /\ ~userSpeaking
  /\ irregular < MaxIrregular
  /\ Happens([type |-> "user_speaking"], onUserSpeaking(Irregular(Cur)))

UserAudio ==
  /\ clientSocket = "OPEN"
  /\ userSpeaking
  /\ Happens([type |-> "user_audio"],
             fanOut(Cur, [type |-> "input_audio_buffer.append", audio |-> "pcm16"]))

UserAudioCommit ==
  /\ clientSocket = "OPEN"
  /\ userSpeaking
  /\ Happens([type |-> "user_audio_commit"],
             fanOut(Cur, [type |-> "input_audio_buffer.commit"]))

\* A user_done that ends no user_speaking is irregular.
UserDone ==
  /\ clientSocket = "OPEN"
  /\ ~userSpeaking => irregular < MaxIrregular
  /\ Happens([type |-> "user_done"],
             onUserDone(IF userSpeaking THEN Cur ELSE Irregular(Cur)))

\* The client's playback timer fires: its audio_playback_done arrives.
PlaybackDone(ack) ==
  /\ clientSocket = "OPEN"
  /\ ack \in playbackTimers
  /\ Happens([type |-> "audio_playback_done", target |-> ack.target,
              turnId |-> ack.turnId],
             onPlaybackDone([Cur EXCEPT !.playbackTimers = @ \ {ack}],
                            ack.target, ack.turnId))

\* The turnIds an audio_playback_done of another client may carry for target:
\* none, the current one, the one before, the one after.
AckTurnIds(target) ==
  {NoTurnId} \cup ({currentTurn[target] - 1, currentTurn[target], currentTurn[target] + 1}
                   \cap Nat)

\* An audio_playback_done that answers no audio_done
UnsolicitedPlaybackDone(target, turnId) ==
  /\ clientSocket = "OPEN"
  /\ irregular < MaxIrregular
  /\ Happens([type |-> "audio_playback_done", target |-> target, turnId |-> turnId],
             onPlaybackDone(Irregular(Cur), target, turnId))

\* A client message that does not parse, or of a type no branch handles
ClientMalformed ==
  /\ clientSocket = "OPEN"
  /\ Happens([type |-> "malformed"], Cur)

ClientClose ==
  /\ clientSocket = "OPEN"
  /\ irregular < MaxIrregular
  /\ Happens([type |-> "close"], onClientClose(Irregular(Cur)))

ErrorMessages == {"Failed to parse OpenAI message.", "error event"}

\* The control events at any time, the turns' audio and transcripts arriving
\* whole (no deltas).
Next ==
  \/ \E key \in AiKey : SocketOpen(key)
  \/ \E key \in AiKey : SessionUpdated(key)
  \/ \E timer \in timers : TimerFires(timer)
  \/ \E key \in AiKey : AudioDone(key)
  \/ \E key \in AiKey, transcript \in ShortTranscriptTexts : TranscriptDone(key, transcript)
  \/ \E ack \in playbackTimers : PlaybackDone(ack)
  \/ Elapse
  \/ Start
  \/ ClientMalformed
  \/ \E key \in AiKey, transcript \in ShortUserTexts : InputTranscriptDone(key, transcript)
  \/ \E key \in AiKey, message \in ErrorMessages : ProviderError(key, message)
  \/ \E target \in AiKey : RequestAi(target)
  \/ UserSpeaking
  \/ UserAudio
  \/ UserAudioCommit
  \/ UserDone
  \/ \E target \in AiKey :
       \E turnId \in AckTurnIds(target) : UnsolicitedPlaybackDone(target, turnId)
  \/ ClientClose

Spec == Init /\ [][Next]_vars

\* Nothing of an earlier turn is still under way.
Quiet == timers = {} /\ playbackTimers = {} /\ \A k \in AiKey : responses[k] = <<>>

\* Whole sessions: the turns run undisturbed, the client's manual commands come
\* once the session has ended, and a new session is started when the ended one
\* is quiet.
NextSession ==
  \/ \E key \in AiKey : SocketOpen(key)
  \/ \E key \in AiKey : SessionUpdated(key)
  \/ \E timer \in timers : TimerFires(timer)
  \/ \E key \in AiKey : AudioDelta(key)
  \/ \E key \in AiKey : AudioDone(key)
  \/ \E key \in AiKey, delta \in DeltaTexts : TranscriptDelta(key, delta)
  \/ \E key \in AiKey, transcript \in TranscriptTexts : TranscriptDone(key, transcript)
  \/ \E ack \in playbackTimers : PlaybackDone(ack)
  \/ (IF sessionEnded THEN Quiet /\ irregular < MaxSessionCommands ELSE ~autoMode) /\ Start
  \/ \E target \in AiKey :
       sessionEnded /\ irregular < MaxSessionCommands /\ RequestAi(target)
  \/ sessionEnded /\ irregular < MaxSessionCommands /\ UserDone

SpecSession == InitSession /\ [][NextSession]_vars

\* Human utterances: the turns run as in a session, and the human speaks,
\* is transcribed on either connection (any of the sample utterances) and ends
\* the utterance while time passes.
NextRouting ==
  \/ \E key \in AiKey : SocketOpen(key)
  \/ \E key \in AiKey : SessionUpdated(key)
  \/ \E timer \in timers : TimerFires(timer)
  \/ \E key \in AiKey : AudioDone(key)
  \/ \E key \in AiKey : TranscriptDone(key, PlainText)
  \/ \E ack \in playbackTimers : PlaybackDone(ack)
  \/ ~autoMode /\ Start
  \/ Elapse
  \/ UserSpeaking
  \/ \E key \in AiKey, transcript \in UserTexts : InputTranscriptDone(key, transcript)
  \/ UserDone

SpecRouting == Init /\ [][NextRouting]_vars

\* Messages the provider had sent before the socket was closed are still
\* delivered to the handlers: the rest of a response that was under way.
LateAudioDone(key) ==
  /\ aiSockets[key] = "CLOSED"
  /\ responses[key] # <<>>
  /\ ~Head(responses[key]).audio
  /\ Happens([type |-> "response.audio.done", key |-> key,
              response |-> Head(responses[key]).turnId],
             onAudioDone(Delivered(Cur, key, "audio"), key))

LateTranscriptDone(key, transcript) ==
  /\ aiSockets[key] = "CLOSED"
  /\ responses[key] # <<>>
  /\ ~Head(responses[key]).transcript
  /\ Happens([type |-> "response.audio_transcript.done", key |-> key,
              response |-> Head(responses[key]).turnId, transcript |-> transcript],
             onTranscriptDone(Delivered(Cur, key, "transcript"), key, transcript))

\* The run with interventions, and what still arrives after the client has gone.
NextDisconnect ==
  \/ Next
  \/ \E key \in AiKey : LateAudioDone(key)
  \/ \E key \in AiKey, transcript \in ShortTranscriptTexts :
       LateTranscriptDone(key, transcript)

SpecDisconnect == Init /\ [][NextDisconnect]_vars

\* "夜 勤"
SpacedShiftText == <<"U591C", " ", "U52E4">>

\* Interviewer utterances that name a shift keyword and nothing else: each
\* keyword of the shift detector after "はい ", and one with white space inside.
ShiftUtterances ==
  {PlainText \o <<" ">> \o keyword : keyword \in shiftKeywords} \cup {SpacedShiftText}

\* First turns of a session in which the provider's transcripts are the shift
\* utterances, or name no topic.
NextCoverage ==
  \/ \E key \in AiKey : SocketOpen(key)
  \/ \E key \in AiKey : SessionUpdated(key)
  \/ \E timer \in timers : TimerFires(timer)
  \/ \E key \in AiKey : AudioDone(key)
  \/ \E key \in AiKey, transcript \in ShiftUtterances \cup {PlainText} :
       TranscriptDone(key, transcript)
  \/ \E ack \in playbackTimers : PlaybackDone(ack)
  \/ ~autoMode /\ Start

SpecCoverage == Init /\ [][NextCoverage]_vars

\* The value of totalTurns at which a session's counters are folded back: two
\* turns, one of each role, past MAX_TURNS.
MaxLiveTurns == 42

\* The turn counters grow without bound while the session goes on. From
\* MAX_TURNS on the program compares totalTurns only with MIN_TURNS and
\* MAX_TURNS (431, 459) and a turnId only with the role's currentTurn (649), so
\* the state two turns later is the same state with totalTurns 2 higher and
\* every turnId 1 higher: it is folded back onto that state.
FoldCounters ==
  /\ totalTurns = MaxLiveTurns
  /\ totalTurns' = totalTurns - 2
  /\ currentTurn' = [k \in AiKey |-> currentTurn[k] - 1]
  /\ timers' = {[t EXCEPT !.turnId = @ - 1] : t \in timers}
  /\ responses' = [k \in AiKey |->
                     [i \in 1..Len(responses[k]) |->
                        [responses[k][i] EXCEPT !.turnId = @ - 1]]]
  /\ playbackTimers' = {[a EXCEPT !.turnId = @ - 1] : a \in playbackTimers}
  /\ clientOut' = <<>>
  /\ aiOut' = NoOutput
  /\ event' = [type |-> "fold"]
  /\ UNCHANGED <<sessionReady, pendingStart, autoMode, userSpeaking, queuedNextKeys,
                 sessionEnded, sessionEndReason, transcriptBuffers, audioStarted,
                 audioDone, transcriptDone, transcriptSent, playbackDone,
                 transcriptDeltaQueue, transcriptFinalText, lastUserTranscript,
                 lastUserTranscriptAge, coverage, aiSockets, clientSocket,
                 irregular, horizon, advanced>>

\* Undisturbed sessions: the session is started once both connections are
\* ready, the client stays connected, the human is silent and no request_ai
\* comes.
NextLive ==
  \/ \E key \in AiKey : totalTurns < MaxLiveTurns /\ SocketOpen(key)
  \/ \E key \in AiKey : totalTurns < MaxLiveTurns /\ SessionUpdated(key)
  \/ \E timer \in timers : totalTurns < MaxLiveTurns /\ TimerFires(timer)
  \/ \E key \in AiKey : totalTurns < MaxLiveTurns /\ AudioDone(key)
  \/ \E key \in AiKey, transcript \in TranscriptTexts :
       totalTurns < MaxLiveTurns /\ TranscriptDone(key, transcript)
  \/ \E ack \in playbackTimers : totalTurns < MaxLiveTurns /\ PlaybackDone(ack)
  \/ sessionReady["ai_a"] /\ sessionReady["ai_b"] /\ ~autoMode /\ ~sessionEnded /\ Start
  \/ FoldCounters

\* The connections open and get ready, a delayed send fires (setTimeout), and
\* every requested turn gets its audio.done, its audio_transcript.done and its
\* playback acknowledgment; the session is started.
Fairness ==
  /\ \A key \in AiKey : WF_vars(SocketOpen(key)) /\ WF_vars(SessionUpdated(key))
  /\ WF_vars(\E timer \in timers : TimerFires(timer))
  /\ \A key \in AiKey :
       /\ WF_vars(AudioDone(key))
       /\ WF_vars(\E transcript \in TranscriptTexts : TranscriptDone(key, transcript))
  /\ WF_vars(\E ack \in playbackTimers : PlaybackDone(ack))
  /\ WF_vars(sessionReady["ai_a"] /\ sessionReady["ai_b"] /\ ~autoMode /\ ~sessionEnded
               /\ Start)
  /\ WF_vars(FoldCounters)

SpecLive == InitSession /\ [][NextLive]_vars /\ Fairness

\* ------------------------------------------------------------------------
\* Properties
\* ------------------------------------------------------------------------

\* The program's own variables (not the provider's, the client's or the run's).
programVars ==
  <<sessionReady, pendingStart, autoMode, userSpeaking, queuedNextKeys, totalTurns,
    sessionEnded, sessionEndReason, transcriptBuffers, audioStarted, audioDone,
    transcriptDone, transcriptSent, playbackDone, currentTurn, transcriptDeltaQueue,
    transcriptFinalText, lastUserTranscript, lastUserTranscriptAge, coverage,
    aiSockets, clientSocket, timers>>

\* The requests this step issued for key (each schedules one delayed send).
IssuedFor(key) == {t \in timers' \ timers : t.key = key}

\* This step handled an audio_playback_done.
AckStep == event'.type = "audio_playback_done"

\* This step handled a response.audio_transcript.done.
TranscriptDoneStep == event'.type = "response.audio_transcript.done"

\* The final text of the transcript this step handled.
StepFinalText ==
  IF event'.transcript # <<>> THEN event'.transcript ELSE transcriptBuffers[event'.key]

\* The messages of a type among those sent to the client.
OfType(messages, type) == SelectSeq(messages, LAMBDA msg : msg.type = type)

\* This step sent nothing to the client or to a provider.
SentNothing == clientOut' = <<>> /\ aiOut' = NoOutput

\* C1: every request issued for a role raises its currentTurn by exactly 1 and
\* carries the new turnId; no step (start, restart, request_ai, user_done, turn
\* completion, anything else) lowers or resets currentTurn.
C1_TurnIdStrictlyIncreasing ==
  [][\A key \in AiKey :
       IF IssuedFor(key) = {}
       THEN currentTurn'[key] = currentTurn[key]
       ELSE /\ currentTurn'[key] = currentTurn[key] + 1
            /\ Cardinality(IssuedFor(key)) = 1
            /\ \A t \in IssuedFor(key) : t.turnId = currentTurn'[key]]_vars

\* C1 witness: a restart happened after both roles had been asked to speak, and
\* the interviewer's turnId went on to 2 while totalTurns was reset.
C1_Witness ==
  /\ event.type = "start"
  /\ currentTurn["ai_a"] = 2
  /\ currentTurn["ai_b"] = 1
  /\ totalTurns = 0

\* At the time this step ran checkTurnCompletion(key), the flag was set: it was
\* set before, or this step's event set it.
FlagsAtCheck(key) ==
  /\ audioDone[key] \/ (event'.type = "response.audio.done" /\ event'.key = key)
  /\ transcriptDone[key] \/ (TranscriptDoneStep /\ event'.key = key)
  /\ playbackDone[key]
       \/ (AckStep /\ event'.target = key
           /\ event'.turnId \in {currentTurn[key], NoTurnId})

StaleAckStep ==
  AckStep /\ event'.turnId # NoTurnId /\ event'.turnId < currentTurn[event'.target]

\* C3: an audio_playback_done whose turnId is smaller than currentTurn[target]
\* changes no variable of the program and sends nothing.
C3_StaleAckNoEffect ==
  [][StaleAckStep => (UNCHANGED programVars /\ SentNothing)]_vars

\* C3 witness: the acknowledgment of turn 1 arrived when the role was at turn 2.
C3_Witness ==
  /\ event.type = "audio_playback_done"
  /\ event.turnId = 1
  /\ currentTurn[event.target] = 2

C5_OneTurnInFlight ==
  [][\A key \in AiKey :
       currentTurn'[key] # currentTurn[key] =>
         (currentTurn[key] = 0 \/ FlagsAtCheck(key))]_vars

\* This step handled an interviewer transcript with a closing marker while the
\* guard failed: too few turns counted, or a topic still missing.
MarkerRefusedStep ==
  /\ TranscriptDoneStep
  /\ event'.key = "ai_a"
  /\ TestAny(endMarkers, StepFinalText)
  /\ (totalTurns' < MIN_TURNS \/ ~hasAllCoverage(coverage'))

\* This step left the session's end state alone and reported no end.
NotEndedByStep ==
  /\ sessionEnded' = sessionEnded
  /\ sessionEndReason' = sessionEndReason
  /\ OfType(clientOut', "session_ended") = <<>>

\* The message is the corrective text, and the topics it names are exactly
\* those whose flag is false after this step.
NamesMissingTopics(msg) ==
  /\ msg.type = "conversation.item.create"
  /\ msg.text[1] = "Continue the interview. Missing topics: "
  /\ \A i \in 1..Len(CoverageKey) :
       (\E j \in 1..Len(msg.text[2]) : msg.text[2][j] = coverageLabels[CoverageKey[i]])
         <=> ~coverage'[CoverageKey[i]]
  /\ Len(msg.text[2]) = Cardinality({i \in 1..Len(CoverageKey) : ~coverage'[CoverageKey[i]]})

\* C6 as stated: whenever the marker is refused, the session does not end and
\* one corrective message naming the missing topics goes to the interviewer.
C6_Original ==
  [][MarkerRefusedStep =>
       /\ NotEndedByStep
       /\ Len(aiOut'["ai_a"]) = 1
       /\ NamesMissingTopics(aiOut'["ai_a"][1])]_vars

\* C6, amended: whenever the marker is refused, the session does not end; if a
\* topic is still missing and the interviewer's connection is open, one
\* corrective message naming exactly the missing topics goes to that connection,
\* and if all six topics are covered (only the turn count refuses the marker)
\* nothing is sent to it.
C6_MarkerRefused ==
  [][MarkerRefusedStep =>
       /\ NotEndedByStep
       /\ IF hasAllCoverage(coverage') \/ aiSockets["ai_a"] # "OPEN"
          THEN aiOut'["ai_a"] = <<>>
          ELSE /\ Len(aiOut'["ai_a"]) = 1
               /\ NamesMissingTopics(aiOut'["ai_a"][1])]_vars

\* C6 witness: the interviewer's marker was refused with two topics covered, and
\* the corrective message names the other four.
C6_Witness ==
  /\ event.type = "response.audio_transcript.done"
  /\ event.key = "ai_a"
  /\ TestAny(endMarkers, event.transcript)
  /\ ~sessionEnded
  /\ coverage.experience /\ coverage.shift /\ ~coverage.visa
  /\ Len(aiOut["ai_a"]) = 1
  /\ Len(aiOut["ai_a"][1].text[2]) = 4

\* C7: in a session that has not ended, a finalized transcript with a closing
\* marker, counted and applied to the coverage, ends the session with reason
\* marker when totalTurns >= MIN_TURNS and all six topics are covered.
C7_MarkerEndsSession ==
  [][(/\ TranscriptDoneStep
      /\ ~sessionEnded
      /\ TestAny(endMarkers, StepFinalText)
      /\ totalTurns' >= MIN_TURNS
      /\ hasAllCoverage(coverage')) =>
       (/\ sessionEnded'
        /\ sessionEndReason' = "marker"
        /\ OfType(clientOut', "session_ended")
             = <<[type |-> "session_ended", reason |-> "marker"]>>)]_vars

\* C7 witness: the session ended by the marker at exactly MIN_TURNS.
C7_Witness ==
  /\ event.type = "response.audio_transcript.done"
  /\ sessionEnded
  /\ sessionEndReason = "marker"
  /\ totalTurns = MIN_TURNS

\* C8: in a session that has not ended, a finalized transcript without a closing
\* marker that brings totalTurns to MAX_TURNS or more ends the session with
\* reason max_turns, whatever the coverage.
C8_MaxTurnsEndsSession ==
  [][(/\ TranscriptDoneStep
      /\ ~sessionEnded
      /\ ~TestAny(endMarkers, StepFinalText)
      /\ totalTurns' >= MAX_TURNS) =>
       (/\ sessionEnded'
        /\ sessionEndReason' = "max_turns"
        /\ OfType(clientOut', "session_ended")
             = <<[type |-> "session_ended", reason |-> "max_turns"]>>)]_vars

\* C8 witness: the session ended at max turns with topics still missing.
C8_Witness ==
  /\ event.type = "response.audio_transcript.done"
  /\ sessionEnded
  /\ sessionEndReason = "max_turns"
  /\ totalTurns >= MAX_TURNS
  /\ ~hasAllCoverage(coverage)

\* C9 as stated: while sessionEnded is true, no step other than a start issues a
\* request or sends a response.create.
C9_NoRequestAfterEnd ==
  [][(sessionEnded /\ event'.type # "start") =>
       /\ currentTurn' = currentTurn
       /\ \A key \in AiKey : OfType(aiOut'[key], "response.create") = <<>>]_vars

\* C10: a step sends session_ended exactly when it turns sessionEnded from false
\* to true, once and with the reason stored in sessionEndReason; only a start
\* turns sessionEnded back to false. So each session reports its end once.
C10_EndReportedOnce ==
  [][/\ OfType(clientOut', "session_ended")
          = IF ~sessionEnded /\ sessionEnded'
            THEN <<[type |-> "session_ended", reason |-> sessionEndReason']>>
            ELSE <<>>
     /\ (~sessionEnded /\ sessionEnded') => sessionEndReason' \in {"marker", "max_turns"}
     /\ (sessionEnded /\ ~sessionEnded') => event'.type = "start"]_vars

\* C10 witness: a second session, started after the first had ended, reports
\* its own end.
C10_Witness ==
  /\ event.type = "response.audio_transcript.done"
  /\ OfType(clientOut, "session_ended") # <<>>
  /\ currentTurn["ai_a"] + currentTurn["ai_b"] >= totalTurns + MIN_TURNS

\* This step handled a start.
StartStep == event'.type = "start"

\* This step handled a session.updated.
ReadyStep == event'.type = "session.updated"

\* Both roles have reported ready.
BothReady(ready) == ready["ai_a"] /\ ready["ai_b"]

\* This step issued exactly one request, for key, with this delay.
IssuedOnly(key, delayMs) ==
  /\ Cardinality(IssuedFor(key)) = 1
  /\ \A t \in IssuedFor(key) : t.delayMs = delayMs /\ t.turnId = currentTurn[key] + 1
  /\ IssuedFor(Other(key)) = {}
  /\ currentTurn' = [currentTurn EXCEPT ![key] = @ + 1]

\* This step issued no request.
IssuedNone == timers' \subseteq timers /\ currentTurn' = currentTurn

\* C11: a start that arrives before both roles are ready is answered with
\* waiting_for_sessions and requests nothing; the step in which the second role
\* reports ready, with that start pending and the session not ended meanwhile,
\* sends sessions_ready and requests one response, for the interviewer, at once.
C11_PendingStartServedWhenReady ==
  [][/\ (StartStep /\ ~BothReady(sessionReady)) =>
          /\ clientOut' = <<[type |-> "waiting_for_sessions"]>>
          /\ pendingStart'
          /\ IssuedNone
          /\ aiOut' = NoOutput
     /\ (ReadyStep /\ pendingStart /\ ~sessionEnded /\ BothReady(sessionReady')) =>
          /\ clientOut' = <<[type |-> "sessions_ready"]>>
          /\ ~pendingStart'
          /\ IssuedOnly("ai_a", 0)
     /\ (ReadyStep /\ ~(pendingStart /\ BothReady(sessionReady'))) =>
          /\ clientOut' = <<>>
          /\ IssuedNone]_vars

\* C11 witness: the candidate's connection reported ready last, with a start
\* pending, and the interviewer's first turn was requested in that step.
C11_Witness ==
  /\ event.type = "session.updated"
  /\ event.key = "ai_b"
  /\ clientOut = <<[type |-> "sessions_ready"]>>
  /\ currentTurn = [k \in AiKey |-> IF k = "ai_a" THEN 1 ELSE 0]
  /\ [key |-> "ai_a", turnId |-> 1, delayMs |-> 0] \in timers

\* C12: a start with both roles ready leaves the coordinator running with the
\* session policy and the coverage reset, sends sessions_ready and requests one
\* response, for the interviewer only.
C12_StartWhenReady ==
  [][(StartStep /\ BothReady(sessionReady)) =>
       /\ autoMode'
       /\ totalTurns' = 0
       /\ ~sessionEnded'
       /\ sessionEndReason' = "null"
       /\ queuedNextKeys' = <<>>
       /\ coverage' = NoCoverage
       /\ clientOut' = <<[type |-> "sessions_ready"]>>
       /\ IssuedOnly("ai_a", 0)]_vars

\* C12 witness: a session that had ended was started again, and its turn count
\* and coverage are reset while the interviewer's next turn is requested.
C12_Witness ==
  /\ event.type = "start"
  /\ clientOut = <<[type |-> "sessions_ready"]>>
  /\ currentTurn["ai_a"] + currentTurn["ai_b"] > MIN_TURNS
  /\ totalTurns = 0
  /\ coverage = NoCoverage
  /\ \E t \in timers : t.key = "ai_a" /\ t.turnId = currentTurn["ai_a"]

\* C13: a step that handles a response.audio_transcript.done of either role
\* raises totalTurns by exactly 1, whatever the turn's audioDone and
\* playbackDone; no other step raises totalTurns.
C13_TurnCountedPerTranscript ==
  [][IF TranscriptDoneStep
     THEN totalTurns' = totalTurns + 1
     ELSE totalTurns' <= totalTurns]_vars

\* C13 witness: the second transcript of a session was counted before its
\* audio was done and before any acknowledgment of it.
C13_Witness ==
  /\ event.type = "response.audio_transcript.done"
  /\ ~audioDone[event.key]
  /\ ~playbackDone[event.key]
  /\ totalTurns = 2

\* C14: a step that handles no start neither lowers totalTurns nor turns a
\* coverage flag from true to false.
C14_MonotoneWithinSession ==
  [][~StartStep =>
       /\ totalTurns' >= totalTurns
       /\ \A i \in 1..Len(CoverageKey) :
            coverage[CoverageKey[i]] => coverage'[CoverageKey[i]]]_vars

\* C14 witness: an interviewer transcript that names no topic arrived when some
\* topics were covered and others not, and the covered ones stay covered.
C14_Witness ==
  /\ event.type = "response.audio_transcript.done"
  /\ event.key = "ai_a"
  /\ event.transcript = PlainText
  /\ coverage.experience /\ coverage.shift /\ ~coverage.visa
  /\ totalTurns >= 3

\* This step handled a user_done.
UserDoneStep == event'.type = "user_done"

\* The last human transcript is fresh: there is one and it is under 5 s old.
FreshUtterance == lastUserTranscript # <<>> /\ lastUserTranscriptAge < 5000

\* The routing decision a user_done takes now.
Decision == IF FreshUtterance THEN pickNextSpeaker(lastUserTranscript) ELSE "null"

\* This step handled a user_done in a running session that has not ended.
RoutedStep == UserDoneStep /\ autoMode /\ ~sessionEnded

\* This step requested first (with the 350 ms delay, if that role's connection
\* is open) and left rest in the pending queue.
Routed(first, rest) ==
  /\ queuedNextKeys' = rest
  /\ IF aiSockets[first] = "OPEN" THEN IssuedOnly(first, 350) ELSE IssuedNone

\* C15 as stated: a fresh utterance that matches both keyword sets makes the
\* user_done request the candidate first and queue the interviewer.
C15_Original ==
  [][(RoutedStep /\ Decision = "both") => Routed("ai_b", <<"ai_a">>)]_vars

\* C15, amended: a fresh utterance that matches both keyword sets makes the
\* user_done request the interviewer first and queue the candidate.
C15_BothInterviewerFirst ==
  [][(RoutedStep /\ Decision = "both") => Routed("ai_a", <<"ai_b">>)]_vars

\* C15 witness: after an utterance naming both roles, the user_done requested
\* the interviewer and the candidate waits in the queue.
C15_Witness ==
  /\ event.type = "user_done"
  /\ pickNextSpeaker(lastUserTranscript) = "both"
  /\ queuedNextKeys = <<"ai_b">>
  /\ \E t \in timers : t.key = "ai_a" /\ t.delayMs = 350 /\ t.turnId = currentTurn["ai_a"]

\* The keyword sets the last human transcript matches.
ToCandidate == TestAny(candidateHints, StripWhiteSpace(lastUserTranscript))
ToInterviewer == TestAny(interviewerHints, StripWhiteSpace(lastUserTranscript))

\* C16: a user_done in a running session that has not ended requests the
\* candidate when the last human transcript is fresh and matches the
\* candidate-directed set only, and otherwise, unless it is fresh and matches
\* both sets, the interviewer (fresh and interviewer-directed only, matching
\* neither set, no transcript, or 5 s old or older); the pending queue is left
\* empty. With no start pending the request is always issued.
C16_RoutesToOneRole ==
  [][(RoutedStep /\ ~(FreshUtterance /\ ToCandidate /\ ToInterviewer)) =>
       LET first == IF FreshUtterance /\ ToCandidate THEN "ai_b" ELSE "ai_a"
       IN /\ Routed(first, <<>>)
          /\ ~pendingStart => IssuedOnly(first, 350)]_vars

\* C16 witness: the utterance named the candidate only and was still fresh at
\* the user_done, which requested the candidate and queued nobody.
C16_Witness ==
  /\ event.type = "user_done"
  /\ lastUserTranscript = ToCandidateText
  /\ lastUserTranscriptAge < 5000
  /\ queuedNextKeys = <<>>
  /\ \E t \in timers : t.key = "ai_b" /\ t.delayMs = 350 /\ t.turnId = currentTurn["ai_b"]

\* C16 witness of the fallback: the same utterance was 5 s old at the user_done,
\* which requested the interviewer.
C16_WitnessStale ==
  /\ event.type = "user_done"
  /\ lastUserTranscript = ToCandidateText
  /\ lastUserTranscriptAge = 5000
  /\ queuedNextKeys = <<>>
  /\ \E t \in timers : t.key = "ai_a" /\ t.delayMs = 350 /\ t.turnId = currentTurn["ai_a"]

\* This step ran checkTurnCompletion(key) with the turn's three flags set: the
\* turn of key completes in this step.
Completes(key) ==
  \/ /\ event'.type \in {"response.audio.done", "response.audio_transcript.done"}
     /\ event'.key = key
     /\ FlagsAtCheck(key)
  \/ /\ AckStep
     /\ event'.target = key
     /\ event'.turnId \in {currentTurn[key], NoTurnId}
     /\ audioDone[key] /\ transcriptDone[key]

\* The pending queue when the completion is checked: this step's end of the
\* session, if any, has emptied it before.
QueueAtCheck == IF sessionEnded' /\ ~sessionEnded THEN <<>> ELSE queuedNextKeys

\* C17: a turn that completes while the coordinator is running, the human is
\* not speaking and the session has not ended requests exactly one response,
\* with the 450 ms delay: for the head of the pending queue, which is removed,
\* or with an empty queue for the other role. A turn that completes while the
\* human is speaking, the coordinator is not running or the session has ended
\* requests nothing and leaves the queue as it is.
C17_CompletionAdvances ==
  [][\A key \in AiKey :
       Completes(key) =>
         IF autoMode' /\ ~userSpeaking /\ ~sessionEnded'
         THEN LET next == IF queuedNextKeys # <<>> THEN Head(queuedNextKeys)
                          ELSE Other(key)
              IN /\ queuedNextKeys' = IF queuedNextKeys # <<>> THEN Tail(queuedNextKeys)
                                      ELSE <<>>
                 /\ IF aiSockets[next] = "OPEN" THEN IssuedOnly(next, 450)
                    ELSE IssuedNone
                 /\ ~pendingStart => IssuedOnly(next, 450)
         ELSE /\ IssuedNone
              /\ queuedNextKeys' = QueueAtCheck]_vars

\* C17 witness: the candidate's turn completed with the candidate at the head of
\* the queue (a user_done had queued it): the candidate itself was requested
\* again, not the interviewer, and the queue is empty.
C17_Witness ==
  /\ event.type = "audio_playback_done"
  /\ event.target = "ai_b"
  /\ event.turnId = currentTurn["ai_b"] - 1
  /\ queuedNextKeys = <<>>
  /\ [key |-> "ai_b", turnId |-> currentTurn["ai_b"], delayMs |-> 450] \in timers

\* The context injection that carries text as said by key.
ContextOf(key, text) ==
  [type |-> "conversation.item.create", role |-> "user",
   text |-> <<"[", AI_PROFILES[key].name, " said]: ", text>>]

\* The context injections among the messages.
Contexts(messages) ==
  SelectSeq(messages, LAMBDA msg : msg.type = "conversation.item.create"
                                   /\ msg.text[1] = "[")

\* C18 as stated: every finalized transcript of a role puts exactly one context
\* injection, carrying the final text under the speaker's name, on the other
\* role's connection and none on the speaker's own.
C18_Original ==
  [][TranscriptDoneStep =>
       /\ aiOut'[Other(event'.key)] = <<ContextOf(event'.key, StepFinalText)>>
       /\ Contexts(aiOut'[event'.key]) = <<>>]_vars

\* C18, amended: a finalized transcript of a role whose final text is not
\* blank puts exactly one context injection, carrying the final text under the
\* speaker's name, on the other role's connection if that connection is open;
\* a blank final text puts nothing there; the speaker's own connection gets no
\* context injection.
C18_ContextToOtherRole ==
  [][TranscriptDoneStep =>
       /\ aiOut'[Other(event'.key)] =
            IF Trim(StepFinalText) # <<>> /\ aiSockets[Other(event'.key)] = "OPEN"
            THEN <<ContextOf(event'.key, StepFinalText)>>
            ELSE <<>>
       /\ Contexts(aiOut'[event'.key]) = <<>>]_vars

\* C18 witness: the candidate's transcript came without a text of its own, the
\* final text was taken from the deltas and went to the interviewer's connection.
C18_Witness ==
  /\ event.type = "response.audio_transcript.done"
  /\ event.key = "ai_b"
  /\ event.transcript = <<>>
  /\ aiOut["ai_a"] = <<ContextOf("ai_b", PlainText)>>
  /\ aiOut["ai_b"] = <<>>

\* C19: the step that handles the client's disconnect closes both provider
\* connections, whatever the state; from then on both stay closed and no step
\* (a delayed send scheduled before, a provider message still delivered) sends
\* anything on either connection.
C19_DisconnectClosesProviders ==
  [][/\ event'.type = "close" =>
          /\ aiSockets' = [k \in AiKey |-> "CLOSED"]
          /\ aiOut' = NoOutput
     /\ clientSocket = "CLOSED" =>
          /\ aiSockets' = [k \in AiKey |-> "CLOSED"]
          /\ aiOut' = NoOutput]_vars

\* C19 witness: a delayed send scheduled before the disconnect, with both roles
\* at their first turn, fired after the client had gone and sent nothing.
C19_Witness ==
  /\ clientSocket = "CLOSED"
  /\ event.type = "timeout"
  /\ event.turnId = 1
  /\ currentTurn[event.key] = 1
  /\ currentTurn[Other(event.key)] = 1
  /\ aiOut = NoOutput

\* C19 witness of a late message: a marker transcript of the interviewer was
\* handled after the client had gone; no corrective and no context was sent.
C19_WitnessLate ==
  /\ clientSocket = "CLOSED"
  /\ event.type = "response.audio_transcript.done"
  /\ event.key = "ai_a"
  /\ event.transcript = MarkerText
  /\ aiOut = NoOutput

\* C20: a step that handles a provider's error event sends one error message,
\* with the event's message, to the client and does nothing else: no variable
\* of the program changes (session end, autoMode, turn counters, per-turn flags,
\* queue, totalTurns, both connections, pending requests) and nothing is sent
\* to a provider.
C20_ProviderErrorForwarded ==
  [][event'.type = "error" =>
       /\ clientOut' = <<[type |-> "error", message |-> event'.message]>>
       /\ UNCHANGED programVars
       /\ aiOut' = NoOutput]_vars

\* C20 witness: the error came on the candidate's connection in a running
\* session while the interviewer's response was under way.
C20_Witness ==
  /\ event.type = "error"
  /\ event.key = "ai_b"
  /\ clientOut = <<[type |-> "error", message |-> "error event"]>>
  /\ autoMode
  /\ currentTurn["ai_a"] = 1
  /\ responses["ai_a"] # <<>>
  /\ aiSockets = [k \in AiKey |-> "OPEN"]

\* This step handled a client message that did not parse.
ClientMalformedStep == event'.type = "malformed"

\* This step handled a provider message that did not parse.
ProviderMalformedStep ==
  event'.type = "error" /\ event'.message = "Failed to parse OpenAI message."

\* C21 as stated: a message that does not parse, from the client or from a
\* provider, changes no variable of the program and sends nothing to anyone.
C21_Original ==
  [][(ClientMalformedStep \/ ProviderMalformedStep) =>
       (UNCHANGED programVars /\ SentNothing)]_vars

\* C21, amended: a message that does not parse changes no variable of the
\* program; from the client it sends nothing to anyone; from a provider it
\* sends nothing to a provider and one error message, "Failed to parse OpenAI
\* message.", to the client.
C21_MalformedMessage ==
  [][/\ ClientMalformedStep => (UNCHANGED programVars /\ SentNothing)
     /\ ProviderMalformedStep =>
          /\ UNCHANGED programVars
          /\ aiOut' = NoOutput
          /\ clientOut' = <<[type |-> "error",
                             message |-> "Failed to parse OpenAI message."]>>]_vars

\* C21 witness: a message of the interviewer's provider did not parse while the
\* interviewer's first response was under way, and the client was told.
C21_Witness ==
  /\ event.type = "error"
  /\ event.key = "ai_a"
  /\ event.message = "Failed to parse OpenAI message."
  /\ clientOut = <<[type |-> "error", message |-> "Failed to parse OpenAI message."]>>
  /\ responses["ai_a"] # <<>>
  /\ autoMode

\* This step handled an interviewer transcript that names a shift keyword,
\* with no topic covered before.
FirstShiftStep ==
  /\ TranscriptDoneStep
  /\ event'.key = "ai_a"
  /\ coverage = NoCoverage
  /\ StepFinalText \in ShiftUtterances

\* "勤務時間"
ShiftHoursWord == <<"U52E4", "U52D9", "U6642", "U9593">>

\* C22 as stated: from no topic covered, an interviewer utterance with a shift
\* keyword sets the shift flag and leaves the other five false.
C22_Original ==
  [][FirstShiftStep => coverage' = [NoCoverage EXCEPT !.shift = TRUE]]_vars

\* C22, amended: from no topic covered, an interviewer utterance with a shift
\* keyword sets the shift flag; it leaves the other five false unless the
\* keyword is 勤務時間, which sets the experience flag as well.
C22_ShiftKeywordSetsShift ==
  [][FirstShiftStep =>
       coverage' = [NoCoverage EXCEPT
                      !.shift = TRUE,
                      !.experience = Includes(StepFinalText, ShiftHoursWord)]]_vars

\* C22 witness: the interviewer's first utterance was "はい 勤務時間", and the
\* shift and experience flags are set.
C22_Witness ==
  /\ event.type = "response.audio_transcript.done"
  /\ event.key = "ai_a"
  /\ event.transcript = PlainText \o <<" ">> \o ShiftHoursWord
  /\ totalTurns = 1
  /\ coverage = [NoCoverage EXCEPT !.shift = TRUE, !.experience = TRUE]

\* C22 witness of the other keywords: the first utterance was "夜 勤", and only
\* the shift flag is set.
C22_WitnessShiftOnly ==
  /\ event.type = "response.audio_transcript.done"
  /\ event.key = "ai_a"
  /\ event.transcript = SpacedShiftText
  /\ totalTurns = 1
  /\ coverage = [NoCoverage EXCEPT !.shift = TRUE]

\* C23 as stated: a request is issued for a role, and a response.create is sent
\* to it, only when the role has reported ready.
C23_RequestOnlyWhenReady ==
  [][\A key \in AiKey :
       /\ IssuedFor(key) # {} => sessionReady'[key]
       /\ OfType(aiOut'[key], "response.create") # <<>> => sessionReady[key]]_vars

\* This step handled the audio.done or audio_transcript.done of a response that
\* was requested for an earlier turn of the role than its current one.
LateCompletionStep ==
  /\ event'.type \in {"response.audio.done", "response.audio_transcript.done"}
  /\ event'.response < currentTurn[event'.key]

\* The messages to the client that carry this source and turnId.
Announced(messages, key, turnId) ==
  SelectSeq(messages, LAMBDA msg : msg.type \in {"audio_done", "transcript_done"}
                                   /\ msg.source = key /\ msg.turnId = turnId)

\* C24 as stated: the late audio.done or audio_transcript.done of a superseded
\* response sets neither audioDone nor transcriptDone of the role's new turn,
\* is not announced to the client under the new turnId and requests no next
\* speaker.
C24_NoStaleCompletion ==
  [][LateCompletionStep =>
       /\ audioDone'[event'.key] = audioDone[event'.key]
       /\ transcriptDone'[event'.key] = transcriptDone[event'.key]
       /\ Announced(clientOut', event'.key, currentTurn[event'.key]) = <<>>
       /\ IssuedNone]_vars

\* C25 as stated: a delayed send whose turn has been superseded by a newer
\* request for the role sends no response.create, and a playback-done
\* announcement the client had scheduled for a superseded turn is not delivered.
C25_SupersededActionsCancelled ==
  [][/\ (event'.type = "timeout" /\ event'.turnId < currentTurn[event'.key]) =>
          OfType(aiOut'[event'.key], "response.create") = <<>>
     /\ \A ack \in playbackTimers \ playbackTimers' :
          ack.turnId = currentTurn[ack.target]]_vars

\* C26: a step that handles a candidate transcript, whatever its text, leaves
\* the six coverage flags as they were.
C26_CandidateTextNotCovered ==
  [][(TranscriptDoneStep /\ event'.key = "ai_b") => coverage' = coverage]_vars

\* C26 witness: the candidate named all six topics while two of them were
\* covered, and the other four are still missing.
C26_Witness ==
  /\ event.type = "response.audio_transcript.done"
  /\ event.key = "ai_b"
  /\ event.transcript = AllTopicsText
  /\ coverage = [NoCoverage EXCEPT !.experience = TRUE, !.shift = TRUE]

\* C27 as stated: a step that handles a candidate transcript changes neither
\* sessionEnded nor sessionEndReason.
C27_CandidateNeverEnds ==
  [][(TranscriptDoneStep /\ event'.key = "ai_b") =>
       /\ sessionEnded' = sessionEnded
       /\ sessionEndReason' = sessionEndReason]_vars

\* This step handled a finalized human transcript.
InputTranscriptStep == event'.type = "input_audio_transcription.completed"

\* C28: a finalized human transcript that arrives on the candidate's connection
\* changes no variable of the program (lastUserTranscript and its time
\* included) and sends nothing; one that arrives on the interviewer's
\* connection sends at most one user_transcript, with the trimmed text, and
\* only then becomes the transcript that routing uses.
C28_HumanTranscriptFromInterviewerOnly ==
  [][/\ (InputTranscriptStep /\ event'.key = "ai_b") =>
          (UNCHANGED programVars /\ SentNothing)
     /\ (InputTranscriptStep /\ event'.key = "ai_a") =>
          /\ aiOut' = NoOutput
          /\ \/ /\ clientOut' = <<[type |-> "user_transcript",
                                   text |-> Trim(event'.transcript)]>>
                /\ lastUserTranscript' = Trim(event'.transcript)
                /\ lastUserTranscriptAge' = 0
             \/ /\ clientOut' = <<>>
                /\ lastUserTranscript' = lastUserTranscript
                /\ lastUserTranscriptAge' = lastUserTranscriptAge]_vars

\* C28 witness: the same utterance was transcribed on both connections; the
\* candidate's copy came second, with another text, and the interviewer's
\* stays the last human transcript.
C28_Witness ==
  /\ event.type = "input_audio_transcription.completed"
  /\ event.key = "ai_b"
  /\ event.transcript = ToCandidateText
  /\ lastUserTranscript = ToInterviewerText
  /\ lastUserTranscriptAge = 0
  /\ clientOut = <<>>

\* C29 as stated: a turn requests the next speaker at most once: a step that
\* handles a further event of a role whose current turn has already requested
\* the next speaker requests nothing again.
C29_AdvanceOncePerTurn ==
  [][\A key \in AiKey :
       (key = Completer(event') /\ \E t \in timers' \ timers : t.delayMs = 450)
         => ~advanced[key]]_vars

\* C30 as stated: in a session that has been started and has not ended,
\* totalTurns is below MAX_TURNS.
C30_MaxTurnsBound == (autoMode /\ ~sessionEnded) => totalTurns < MAX_TURNS

\* This step handled the second of the audio.done and audio_transcript.done of
\* key's turn: with it the turn has both.
BothDoneStep(key) ==
  /\ event'.type \in {"response.audio.done", "response.audio_transcript.done"}
  /\ event'.key = key
  /\ ~(audioDone[key] /\ transcriptDone[key])
  /\ audioDone[key] \/ event'.type = "response.audio.done"
  /\ transcriptDone[key] \/ event'.type = "response.audio_transcript.done"

\* The final text key's turn has at such a step.
TurnFinalText(key) ==
  IF TranscriptDoneStep THEN StepFinalText ELSE transcriptFinalText[key]

\* The transcript_done messages among those sent to the client for key.
TranscriptDoneOf(messages, key) ==
  SelectSeq(messages, LAMBDA msg : msg.type = "transcript_done" /\ msg.source = key)

\* No transcript_done comes before an audio_done in the messages of a step.
AudioDoneFirst(messages) ==
  \A i, j \in 1..Len(messages) :
    (messages[i].type = "transcript_done" /\ messages[j].type = "audio_done") => j < i

\* A transcript_done for key is sent only for the turn under way, only while
\* none has been sent for it, and only once the turn's audio is done.
SentOnceAfterAudio(key) ==
  TranscriptDoneOf(clientOut', key) # <<>> =>
    /\ Len(TranscriptDoneOf(clientOut', key)) = 1
    /\ TranscriptDoneOf(clientOut', key)[1].turnId = currentTurn[key]
    /\ ~transcriptSent[key]
    /\ audioDone[key] \/ event'.type = "response.audio.done"
    /\ AudioDoneFirst(clientOut')

\* C31 as stated: when a turn has had both its audio.done and its
\* audio_transcript.done, whatever the final text, exactly one transcript_done
\* is sent to the client for it, and not before the turn's audio_done.
C31_Original ==
  [][\A key \in AiKey :
       /\ SentOnceAfterAudio(key)
       /\ (BothDoneStep(key) /\ ~transcriptSent[key])
            => Len(TranscriptDoneOf(clientOut', key)) = 1]_vars

\* C31 amended: when a turn has had both its audio.done and its
\* audio_transcript.done and its final text is not empty, exactly one
\* transcript_done carrying that text is sent to the client for it, and not
\* before the turn's audio_done; when the final text is empty, none is sent.
C31_TranscriptDoneOncePerTurn ==
  [][\A key \in AiKey :
       /\ SentOnceAfterAudio(key)
       /\ (BothDoneStep(key) /\ ~transcriptSent[key]) =>
            IF Truthy(TurnFinalText(key))
            THEN /\ Len(TranscriptDoneOf(clientOut', key)) = 1
                 /\ TranscriptDoneOf(clientOut', key)[1].text = TurnFinalText(key)
            ELSE TranscriptDoneOf(clientOut', key) = <<>>]_vars

\* C31 witness: an audio.done came after the turn's final transcript and the
\* transcript_done followed the audio_done in the same step.
C31_Witness ==
  /\ event.type = "response.audio.done"
  /\ Len(clientOut) = 2
  /\ clientOut[1].type = "audio_done"
  /\ clientOut[2].type = "transcript_done"
  /\ clientOut[2].text # <<>>

\* C31 witness: a turn had its audio.done and an empty audio_transcript.done
\* with nothing buffered, and no transcript_done was sent.
C31_WitnessEmpty ==
  /\ event.type = "response.audio_transcript.done"
  /\ event.transcript = <<>>
  /\ audioDone[event.key] /\ transcriptDone[event.key]
  /\ transcriptFinalText[event.key] = <<>>
  /\ ~transcriptSent[event.key]
  /\ clientOut = <<>>

\* C32 as stated: in an undisturbed session started with both connections
\* ready, in which every requested turn gets its audio.done, its
\* audio_transcript.done and its playback acknowledgment, the session
\* eventually ends, whatever the transcripts say.
C32_SessionEventuallyEnds == autoMode ~> sessionEnded

\* What does hold of such a session: the turns keep coming until the session
\* ends or totalTurns has reached MAX_TURNS.
C32_EndsOrReachesMaxTurns == autoMode ~> (sessionEnded \/ totalTurns >= MAX_TURNS)

====
